---- MODULE Spec2Model ----
(***************************************************************************)
(* DevBox.js utility console (src/devbox.js): the log store backed by      *)
(* localStorage, the submit listener, the window.fetch wrapper, the two    *)
(* panes and the window.DevBox control handle, as one state machine.       *)
(*                                                                         *)
(* JavaScript values that end up in a payload are pairs <<type, content>>; *)
(* a payload (a plain object) is a function from keys to such pairs; JSON  *)
(* text is a TLA+ string.  Labels and titles are strings.                  *)
(***************************************************************************)
EXTENDS Integers, Sequences, FiniteSets, TLC

\* ---------------------------------------------------------------- bounds
\* the clock stops at MaxClock seconds; a page makes at most MaxCalls calls of
\* fetch; a page is reloaded only while the reloaded log stays within MaxLog
MaxClock == 2
MaxCalls == 2
MaxLog == 7

\* ------------------------------------------------------- JavaScript values
Undefined == <<"undefined", "">>
Str(s) == <<"string", s>>
Obj(json) == <<"object", json>>
FileValue == <<"File", "">>

Truthy(v) == v # Undefined /\ v # Str("")

Empty == [k \in {} |-> Undefined]
Put(o, k, v) == [j \in DOMAIN o \cup {k} |-> IF j = k THEN v ELSE o[j]]

\* ----------------------------------------------------------------- inputs
Url == "/api/x"
Pathname == "/page"

\* fetch(Url), fetch(Url, {method, body})
FetchArgs ==
  { [method |-> Undefined,   body |-> Undefined],
    [method |-> Str("POST"), body |-> Str("{\"q\":1}")],
    [method |-> Str("POST"), body |-> Str("q=1")] }

ResponseTexts == {"{\"ok\":true}", "pong"}

\* a submit event: its target (a form or something else), the form's action
\* and the form's fields in FormData iteration order
SubmitEvents ==
  { [isForm |-> TRUE,  action |-> "/save",
     fields |-> << <<"name", Str("a")>>, <<"name", Str("b")>> >>],
    [isForm |-> TRUE,  action |-> "", fields |-> << <<"doc", FileValue>> >>],
    [isForm |-> FALSE, action |-> "", fields |-> << >>] }

\* the globals and the cookie string the page carries when the script runs
\* (the server sends the same ones at each load): __DEVBOX_SESSION,
\* __DEVBOX_GET, __DEVBOX_POST and __DEVBOX_FILE, each << >> when not injected,
\* and the cookie string, given split at ";" and each piece split at "="
PageEnvs ==
  { [session |-> << >>, get |-> << >>, post |-> << >>, file |-> << >>,
     cookie  |-> << <<"">> >>],
    [session |-> << [user |-> Str("ann")] >>,
     get     |-> << [id |-> Str("7")] >>,
     post    |-> << [q |-> Str("x")] >>,
     file    |-> << Str("/page.php") >>,
     cookie  |-> << <<"sid", "abc">>, <<" theme", "a%20b">>, <<" flag">> >>] }

\* ------------------------------------------------------------------- JSON
ObjectTexts == {"{\"q\":1}", "{\"ok\":true}", "{}"}

PayloadStrings == {"GET", "POST", Url, Pathname, "q=1", "pong", "", "a", "b",
                   "ann", "abc", "a b"}

Quote(s) == "\"" \o s \o "\""

\* JSON.parse of one text: fails on anything that is not JSON
JSONparse(text) ==
  IF text \in ObjectTexts
    THEN [ok |-> TRUE, val |-> Obj(text)]
    ELSE IF \E s \in PayloadStrings : Quote(s) = text
      THEN [ok |-> TRUE, val |-> Str(CHOOSE s \in PayloadStrings : Quote(s) = text)]
      ELSE [ok |-> FALSE, val |-> Undefined]

\* JSON.stringify of one value; an object without own enumerable properties
\* (a File) serializes as "{}"
JSONstringify(v) ==
  CASE v[1] = "string" -> Quote(v[2])
    [] v[1] = "object" -> v[2]
    [] OTHER -> "{}"

StringifyObj(obj) == [k \in DOMAIN obj |-> JSONstringify(obj[k])]
ParseObj(text) == [k \in DOMAIN text |-> JSONparse(text[k]).val]

\* ----------------------------------------------------------------- labels
TimeString(t) == "10:00:0" \o ToString(t)

Label(t, title) == "[" \o TimeString(t) \o "] " \o title

FetchTitle(method, url) == "[" \o method[2] \o "] " \o url

SubmitTitle(ev) == "[FORM SUBMIT] " \o (IF ev.action # "" THEN ev.action ELSE Pathname)

Titles == {"[SESSION]", "[COOKIES]", "[PAGE]"}
          \cup {SubmitTitle(ev) : ev \in SubmitEvents}
          \cup {FetchTitle(m, Url) : m \in {Str("GET"), Str("POST")}}

Labels == {Label(t, title) : t \in 0..MaxClock, title \in Titles}

\* ------------------------------------------------------------ localStorage
\* the value of the key "__DEVBOX_LOGS": absent, text that is not JSON, or
\* the JSON text of an array of {title, obj}
NoItem == [kind |-> "absent", text |-> << >>]
Malformed == [kind |-> "malformed", text |-> << >>]

StringifyEntries(entries) ==
  [i \in 1..Len(entries) |->
     [title |-> Quote(entries[i].title), obj |-> StringifyObj(entries[i].obj)]]

ParseEntries(text) ==
  [i \in 1..Len(text) |->
     [title |-> CHOOSE l \in Labels : Quote(l) = text[i].title,
      obj   |-> ParseObj(text[i].obj)]]

Item(entry) == [label |-> entry.title, obj |-> entry.obj]

VARIABLES
  loaded,          \* window.__DEVBOX_LOADED__
  visible,         \* let visible
  display,         \* devBox.style.display
  blockRedirects,  \* let blockRedirects
  stopSubmit,      \* let stopSubmit
  logEntries,      \* let logEntries
  storage,         \* localStorage["__DEVBOX_LOGS"]
  sidebar,         \* children of the list pane, top to bottom
  mainView,        \* content of the detail pane: << >> or <<text>>
  installed,       \* what the script has installed so far on this page
  calls,           \* the frames of the calls of the wrapped fetch on this page
  now,             \* the wall clock, in seconds
  setItemThrows,   \* whether this browser's localStorage.setItem throws
  env,             \* window.__DEVBOX_SESSION and document.cookie of the page
  restored,        \* what line 117 read from storage on this page
  defaultPrevented,\* whether the last submit event had preventDefault called
  threw,           \* the exception the last operation on the log ended with
  op               \* the last operation on the log

vars == <<loaded, visible, display, blockRedirects, stopSubmit, logEntries,
          storage, sidebar, mainView, installed, calls, now, setItemThrows,
          env, restored, defaultPrevented, threw, op>>

\* ------------------------------------------------------------ addLogEntry
\* The log part of the page state is a record S = [logEntries, sidebar,
\* storage, threw].  full: localStorage.setItem throws (no quota, as in a
\* private window); a call that throws leaves what it had already changed.
\* a variant of Persist that serializes the sequence as it was before the push
Persist_BeforePush(S, full) ==
  IF full THEN [S EXCEPT !.threw = "storage"]
  ELSE [S EXCEPT !.storage =
          [kind |-> "json",
           text |-> StringifyEntries(SubSeq(S.logEntries, 1, Len(S.logEntries) - 1))]]

Persist(S, full) ==
  IF full THEN [S EXCEPT !.threw = "storage"]
  ELSE [S EXCEPT !.storage = [kind |-> "json", text |-> StringifyEntries(S.logEntries)]]

\* a variant of AddLogEntry that persists the new entry alone
AddLogEntry_PersistsNewOnly(S, title, obj, t, full) ==
  LET label == Label(t, title)
      T == [S EXCEPT !.sidebar = <<[label |-> label, obj |-> obj]>> \o S.sidebar,
                     !.logEntries = Append(S.logEntries, [title |-> label, obj |-> obj])]
  IN  IF full THEN [T EXCEPT !.threw = "storage"]
      ELSE [T EXCEPT !.storage =
              [kind |-> "json",
               text |-> StringifyEntries(<<[title |-> label, obj |-> obj]>>)]]

\* a variant of AddLogEntry that puts the new entry first in the sequence
AddLogEntry_Unshift(S, title, obj, t, full) ==
  LET label == Label(t, title)
  IN  Persist([S EXCEPT !.sidebar = <<[label |-> label, obj |-> obj]>> \o S.sidebar,
                        !.logEntries = <<[title |-> label, obj |-> obj]>> \o S.logEntries],
              full)

\* a variant of AddLogEntry that puts the new item at the bottom of the list
AddLogEntry_ItemLast(S, title, obj, t, full) ==
  LET label == Label(t, title)
  IN  Persist([S EXCEPT !.sidebar = Append(S.sidebar, [label |-> label, obj |-> obj]),
                        !.logEntries = Append(S.logEntries, [title |-> label, obj |-> obj])],
              full)

AddLogEntry(S, title, obj, t, full) ==
  LET label == Label(t, title)
  IN  Persist([S EXCEPT !.sidebar = <<[label |-> label, obj |-> obj]>> \o S.sidebar,
                        !.logEntries = Append(S.logEntries, [title |-> label, obj |-> obj])],
              full)

\* the next statement of a handler runs only when the previous did not throw
ThenLog(S, title, obj, t, full) ==
  IF S.threw # "none" THEN S ELSE AddLogEntry(S, title, obj, t, full)

\* ---------------------------------------------------------- static captures
Trim(s) == CASE s = " theme" -> "theme" [] s = " flag" -> "flag" [] OTHER -> s

DecodeURIComponent(s) == CASE s = "a%20b" -> "a b" [] OTHER -> s

RECURSIVE CookieReduce(_, _)
CookieReduce(pieces, acc) ==
  IF pieces = << >> THEN acc
  ELSE LET c == Head(pieces)
           k == c[1]
           hasV == Len(c) >= 2 /\ c[2] # ""
       IN  CookieReduce(Tail(pieces),
                        IF k # "" /\ hasV
                          THEN Put(acc, Trim(k), Str(DecodeURIComponent(c[2])))
                          ELSE acc)

Cookies(e) == CookieReduce(e.cookie, Empty)

Session(e) == IF e.session = << >> THEN Empty ELSE e.session[1]

\* a variant of StaticCaptures without the cookies entry
StaticCaptures_NoCookies(S, e, t, full) ==
  ThenLog(AddLogEntry(S, "[SESSION]", Session(e), t, full),
          "[PAGE]", [pathname |-> Str(Pathname)], t, full)

\* lines 199-209, on the log state left by lines 117-150
StaticCaptures(S, e, t, full) ==
  ThenLog(ThenLog(AddLogEntry(S, "[SESSION]", Session(e), t, full),
                  "[COOKIES]", Cookies(e), t, full),
          "[PAGE]", [pathname |-> Str(Pathname)], t, full)

\* ------------------------------------------------------- the script's body
NothingInstalled == [tab |-> FALSE, submit |-> FALSE, fetch |-> FALSE,
                     handle |-> FALSE, panel |-> FALSE]

AllInstalled == [tab |-> TRUE, submit |-> TRUE, fetch |-> TRUE,
                 handle |-> TRUE, panel |-> TRUE]

\* line 117: JSON.parse(localStorage.getItem("__DEVBOX_LOGS") || "[]")
Load(store) ==
  CASE store.kind = "absent"    -> [ok |-> TRUE,  val |-> << >>]
    [] store.kind = "malformed" -> [ok |-> FALSE, val |-> << >>]
    [] OTHER                    -> [ok |-> TRUE,  val |-> ParseEntries(store.text)]

\* the whole function of lines 24-241 on a fresh page: the log state it leaves
\* and what it has installed when it returns or throws
RunScript(store, e, t, full) ==
  LET load == Load(store)
      S0 == [logEntries |-> load.val,
             sidebar    |-> [i \in 1..Len(load.val) |-> Item(load.val[i])],
             storage    |-> store,
             threw      |-> "none"]
      S3 == StaticCaptures(S0, e, t, full)
  IN  IF ~load.ok
        THEN [log |-> [S0 EXCEPT !.threw = "parse"],
              installed |-> [NothingInstalled EXCEPT !.tab = TRUE]]
      ELSE IF S3.threw # "none"
        THEN [log |-> S3,
              installed |-> [NothingInstalled EXCEPT !.tab = TRUE, !.submit = TRUE,
                                                     !.fetch = TRUE]]
      ELSE [log |-> S3, installed |-> AllInstalled]

LogState == [logEntries |-> logEntries, sidebar |-> sidebar, storage |-> storage,
             threw |-> "none"]

SetLog(S) ==
  /\ logEntries' = S.logEntries
  /\ sidebar' = S.sidebar
  /\ storage' = S.storage
  /\ threw' = S.threw

\* the frame of a call of the wrapped fetch
IdleCall == [pc |-> "idle", args |-> [method |-> Undefined, body |-> Undefined],
             entry |-> Empty, respText |-> "", respBodyUsed |-> FALSE,
             cloneBodyUsed |-> FALSE, logged |-> 0, returned |-> "none",
             err |-> "none"]

\* ------------------------------------------------------------------- Init
\* the page before the script runs; the storage is what earlier pages left
Init ==
  /\ loaded = FALSE
  /\ visible = FALSE
  /\ display = "none"
  /\ blockRedirects = FALSE
  /\ stopSubmit = TRUE
  /\ logEntries = << >>
  /\ storage \in {NoItem, Malformed}
  /\ sidebar = << >>
  /\ mainView = << >>
  /\ installed = NothingInstalled
  /\ calls = [c \in 1..MaxCalls |-> IdleCall]
  /\ now = 0
  /\ setItemThrows \in BOOLEAN
  /\ env \in PageEnvs
  /\ restored = << >>
  /\ defaultPrevented = FALSE
  /\ threw = "none"
  /\ op = "none"

\* ---------------------------------------------------------------- loading
\* the script runs on a fresh page: visible, blockRedirects and stopSubmit get
\* their initial values, the panel is created hidden and empty
FreshRun ==
  LET r == RunScript(storage, env, now, setItemThrows)
  IN  /\ loaded' = TRUE
      /\ visible' = FALSE
      /\ display' = "none"
      /\ blockRedirects' = FALSE
      /\ stopSubmit' = TRUE
      /\ mainView' = << >>
      /\ SetLog(r.log)
      /\ installed' = r.installed
      /\ restored' = Load(storage).val
      /\ calls' = [c \in 1..MaxCalls |-> IdleCall]
      /\ defaultPrevented' = FALSE
      /\ UNCHANGED <<now, setItemThrows, env>>

\* the first run of the script in the page
LoadModule ==
  /\ ~loaded
  /\ FreshRun
  /\ op' = "load"

\* the script included once more in a page that has it: line 25 returns
\* a variant of LoadAgain without the guard of line 25: the body runs again in
\* the page
LoadAgain_RunsBody ==
  /\ loaded
  /\ Len(storage.text) + 3 <= MaxLog
  /\ FreshRun
  /\ UNCHANGED op

LoadAgain ==
  /\ loaded
  /\ UNCHANGED vars

\* the page is reloaded: every script variable and the document are new, the
\* storage stays, and the script runs again
Reload ==
  /\ loaded
  /\ Len(storage.text) + 3 <= MaxLog
  /\ FreshRun
  /\ op' = "reload"

\* ------------------------------------------------------------- visibility
\* a variant of ToggleVisible that flips the flag and leaves the panel as it is
ToggleVisible_FlagOnly ==
  /\ visible' = ~visible
  /\ display' = display

ToggleVisible ==
  /\ visible' = ~visible
  /\ display' = IF visible' THEN "flex" ELSE "none"

\* devBoxTab.onclick
TabClick ==
  /\ installed.tab
  /\ ToggleVisible
  /\ UNCHANGED <<loaded, setItemThrows, env, blockRedirects, stopSubmit, logEntries, storage, sidebar,
                 mainView, installed, calls, now, restored, defaultPrevented,
                 threw, op>>

\* DevBox.open
Open ==
  /\ installed.handle
  /\ visible' = TRUE
  /\ display' = "flex"
  /\ UNCHANGED <<loaded, setItemThrows, env, blockRedirects, stopSubmit, logEntries, storage, sidebar,
                 mainView, installed, calls, now, restored, defaultPrevented,
                 threw, op>>

\* DevBox.close
Close ==
  /\ installed.handle
  /\ visible' = FALSE
  /\ display' = "none"
  /\ UNCHANGED <<loaded, setItemThrows, env, blockRedirects, stopSubmit, logEntries, storage, sidebar,
                 mainView, installed, calls, now, restored, defaultPrevented,
                 threw, op>>

\* DevBox.toggle
Toggle ==
  /\ installed.handle
  /\ ToggleVisible
  /\ UNCHANGED <<loaded, setItemThrows, env, blockRedirects, stopSubmit, logEntries, storage, sidebar,
                 mainView, installed, calls, now, restored, defaultPrevented,
                 threw, op>>

\* the keydown listener, on Ctrl/Cmd + backtick: window.DevBox.toggle()
Keydown ==
  /\ installed.handle
  /\ ToggleVisible
  /\ UNCHANGED <<loaded, setItemThrows, env, blockRedirects, stopSubmit, logEntries, storage, sidebar,
                 mainView, installed, calls, now, restored, defaultPrevented,
                 threw, op>>

\* DevBox.setBlockRedirects(val)
SetBlockRedirects ==
  /\ installed.handle
  /\ \E val \in BOOLEAN : blockRedirects' = val
  /\ UNCHANGED <<loaded, setItemThrows, env, visible, display, stopSubmit, logEntries, storage, sidebar,
                 mainView, installed, calls, now, restored, defaultPrevented,
                 threw, op>>

\* ------------------------------------------------------------------ clear
\* DevBox.clear
Clear ==
  /\ installed.handle
  /\ sidebar' = << >>
  /\ mainView' = << >>
  /\ logEntries' = << >>
  /\ storage' = NoItem
  /\ op' = "clear"
  /\ threw' = "none"
  /\ UNCHANGED <<loaded, setItemThrows, env, visible, display, blockRedirects, stopSubmit, installed,
                 calls, now, restored, defaultPrevented>>

\* clearBtn.onclick; the button is a child of the panel
\* a variant of ClearButton that stores an empty array instead of removing the key
ClearButton_EmptyArray ==
  /\ installed.panel
  /\ display = "flex"
  /\ sidebar' = << >>
  /\ mainView' = << >>
  /\ storage' = [kind |-> "json", text |-> << >>]
  /\ op' = "clearBtn"
  /\ threw' = "none"
  /\ UNCHANGED <<loaded, setItemThrows, env, visible, display, blockRedirects, stopSubmit, logEntries,
                 installed, calls, now, restored, defaultPrevented>>

ClearButton ==
  /\ installed.panel
  /\ display = "flex"
  /\ sidebar' = << >>
  /\ mainView' = << >>
  /\ storage' = NoItem
  /\ op' = "clearBtn"
  /\ threw' = "none"
  /\ UNCHANGED <<loaded, setItemThrows, env, visible, display, blockRedirects, stopSubmit, logEntries,
                 installed, calls, now, restored, defaultPrevented>>

\* ------------------------------------------------------------- list items
\* what section.onclick puts in the detail pane
Detail(obj) == IF DOMAIN obj # {} THEN <<StringifyObj(obj)>> ELSE << >>

\* a click on the i-th item of the list pane
SelectItem ==
  /\ installed.panel
  /\ display = "flex"
  /\ \E i \in 1..Len(sidebar) : mainView' = Detail(sidebar[i].obj)
  /\ UNCHANGED <<loaded, setItemThrows, env, visible, display, blockRedirects, stopSubmit, logEntries,
                 storage, sidebar, installed, calls, now, restored,
                 defaultPrevented, threw, op>>

\* ---------------------------------------------------------- submit listener
\* lines 157-161: the fields of the form, a later field replacing an earlier
\* one of the same name
RECURSIVE FormData(_, _)
FormData(fields, acc) ==
  IF fields = << >> THEN acc
  ELSE FormData(Tail(fields), Put(acc, Head(fields)[1], Head(fields)[2]))

\* line 155
\* a variant of Intercepts without the test of the event's target
Intercepts_AnyTarget(ev) == stopSubmit

\* a variant of Intercepts that lets the submission through when blockRedirects
\* is set
Intercepts_UnlessBlocking(ev) == stopSubmit /\ ev.isForm /\ ~blockRedirects

Intercepts(ev) == stopSubmit /\ ev.isForm

\* the submit event ev reaches the document's capturing listener
SubmitOf(ev) ==
  /\ installed.submit
  /\ now < MaxClock
  /\ now' = now + 1
  /\ IF Intercepts(ev)
       THEN /\ defaultPrevented' = TRUE
            /\ SetLog(AddLogEntry(LogState, SubmitTitle(ev), FormData(ev.fields, Empty),
                                  now', setItemThrows))
            /\ op' = "submit"
       ELSE /\ defaultPrevented' = FALSE
            /\ UNCHANGED <<logEntries, sidebar, storage, threw, op>>
  /\ UNCHANGED <<loaded, setItemThrows, env, visible, display, blockRedirects,
                 stopSubmit, mainView, installed, calls, restored>>

Submit == \E ev \in SubmitEvents : SubmitOf(ev)

\* ------------------------------------------------------------ fetch wrapper
\* line 174
Method(args) == IF Truthy(args.method) THEN args.method ELSE Str("GET")

\* lines 176-183: the entry built before the real request is issued
RequestEntry(args) ==
  LET body   == args.body
      parsed == JSONparse(body[2])
      entry  == [method |-> Method(args), url |-> Str(Url)]
  IN  IF Truthy(body)
        THEN Put(entry, "body",
                 IF body[1] = "string" /\ parsed.ok THEN parsed.val ELSE body)
        ELSE entry

\* lines 190-194
\* a variant of ResponseValue that never parses the text
ResponseValue_Raw(respText) == Str(respText)

ResponseValue(respText) ==
  IF JSONparse(respText).ok THEN JSONparse(respText).val ELSE Str(respText)

FirstIdle == CHOOSE c \in 1..MaxCalls :
               /\ calls[c].pc = "idle"
               /\ \A d \in 1..MaxCalls : calls[d].pc = "idle" => c <= d

\* window.fetch(url, opts) up to the await of line 184
FetchCall ==
  /\ installed.fetch
  /\ now < MaxClock
  /\ \E c \in 1..MaxCalls : calls[c].pc = "idle"
  /\ now' = now + 1
  /\ \E args \in FetchArgs :
       calls' = [calls EXCEPT ![FirstIdle] =
                   [IdleCall EXCEPT !.pc = "awaitFetch", !.args = args,
                                    !.entry = RequestEntry(args)]]
  /\ UNCHANGED <<loaded, setItemThrows, env, visible, display, blockRedirects, stopSubmit, logEntries,
                 storage, sidebar, mainView, installed, restored, defaultPrevented,
                 threw, op>>

\* the body the logger reads: the duplicate's
ReadsBodyOf == "clone"

\* the real request resolves with a response; lines 185-188 up to the await
FetchResolves(c) ==
  /\ calls[c].pc = "awaitFetch"
  /\ calls' = [calls EXCEPT ![c].pc = "awaitText",
                            ![c].cloneBodyUsed = (ReadsBodyOf = "clone"),
                            ![c].respBodyUsed = (ReadsBodyOf = "resp")]
  /\ UNCHANGED <<loaded, setItemThrows, env, visible, display, blockRedirects, stopSubmit, logEntries,
                 storage, sidebar, mainView, installed, now, restored,
                 defaultPrevented, threw, op>>

\* the real request rejects: the await of line 184 throws
FetchRejects(c) ==
  /\ calls[c].pc = "awaitFetch"
  /\ calls' = [calls EXCEPT ![c].pc = "rejected", ![c].err = "network"]
  /\ UNCHANGED <<loaded, setItemThrows, env, visible, display, blockRedirects, stopSubmit, logEntries,
                 storage, sidebar, mainView, installed, now, restored,
                 defaultPrevented, threw, op>>

\* what the caller gets at line 196
\* a variant of Returned: the wrapper hands out the duplicate
Returned_Clone == "clone"

Returned == "resp"

\* the read of line 188 settles, with the body's text or failing; lines 188-196
\* a variant of BodyRead in which a body read settles only after those of the
\* calls made before it
BodyRead_InCallOrder(c) ==
  /\ calls[c].pc = "awaitText"
  /\ \A d \in 1..(c - 1) : calls[d].pc \notin {"awaitFetch", "awaitText"}
  /\ \E read \in [ok : {TRUE}, text : ResponseTexts] \cup {[ok |-> FALSE, text |-> ""]} :
       LET respText == IF read.ok THEN read.text ELSE ""
           entry    == Put(calls[c].entry, "response", ResponseValue(respText))
           S        == AddLogEntry(LogState, FetchTitle(Method(calls[c].args), Url),
                                   entry, now, setItemThrows)
       IN  /\ SetLog(S)
           /\ calls' = [calls EXCEPT
                          ![c].respText = respText,
                          ![c].entry = entry,
                          ![c].logged = calls[c].logged + 1,
                          ![c].pc = IF S.threw = "none" THEN "resolved" ELSE "rejected",
                          ![c].returned = IF S.threw = "none" THEN Returned ELSE "none",
                          ![c].err = S.threw]
  /\ op' = "bodyRead"
  /\ UNCHANGED <<loaded, setItemThrows, env, visible, display, blockRedirects, stopSubmit, mainView,
                 installed, now, restored, defaultPrevented>>

BodyRead(c) ==
  /\ calls[c].pc = "awaitText"
  /\ \E read \in [ok : {TRUE}, text : ResponseTexts] \cup {[ok |-> FALSE, text |-> ""]} :
       LET respText == IF read.ok THEN read.text ELSE ""
           entry    == Put(calls[c].entry, "response", ResponseValue(respText))
           S        == AddLogEntry(LogState, FetchTitle(Method(calls[c].args), Url),
                                   entry, now, setItemThrows)
       IN  /\ SetLog(S)
           /\ calls' = [calls EXCEPT
                          ![c].respText = respText,
                          ![c].entry = entry,
                          ![c].logged = calls[c].logged + 1,
                          ![c].pc = IF S.threw = "none" THEN "resolved" ELSE "rejected",
                          ![c].returned = IF S.threw = "none" THEN Returned ELSE "none",
                          ![c].err = S.threw]
  /\ op' = "bodyRead"
  /\ UNCHANGED <<loaded, setItemThrows, env, visible, display, blockRedirects, stopSubmit, mainView,
                 installed, now, restored, defaultPrevented>>

\* ------------------------------------------------ the control API as functions
\* what the operations of window.DevBox read and write
View == [visible |-> visible, display |-> display, blockRedirects |-> blockRedirects,
         stopSubmit |-> stopSubmit, logEntries |-> logEntries, storage |-> storage,
         sidebar |-> sidebar, mainView |-> mainView]

\* a variant of DevBox_open that flips the flag
DevBox_open_Flips(S) ==
  [S EXCEPT !.visible = ~S.visible,
            !.display = IF ~S.visible THEN "flex" ELSE "none"]

DevBox_open(S) == [S EXCEPT !.visible = TRUE, !.display = "flex"]

DevBox_close(S) == [S EXCEPT !.visible = FALSE, !.display = "none"]

\* a variant of DevBox_toggle that shows the panel whatever the flag
DevBox_toggle_Shows(S) == [S EXCEPT !.visible = TRUE, !.display = "flex"]

DevBox_toggle(S) ==
  [S EXCEPT !.visible = ~S.visible,
            !.display = IF ~S.visible THEN "flex" ELSE "none"]

\* the value isOpen() returns
DevBox_isOpen(S) == S.visible

DevBox_clear(S) ==
  [S EXCEPT !.sidebar = << >>, !.mainView = << >>, !.logEntries = << >>,
            !.storage = NoItem]

DevBox_setBlockRedirects(S, val) == [S EXCEPT !.blockRedirects = val]

\* DevBox.isOpen(): reads the flag, writes nothing
IsOpen ==
  /\ installed.handle
  /\ UNCHANGED vars

\* ------------------------------------------------------------------- Next
Next ==
  \/ LoadModule
  \/ LoadAgain
  \/ Reload
  \/ TabClick
  \/ Open
  \/ Close
  \/ Toggle
  \/ IsOpen
  \/ Keydown
  \/ SetBlockRedirects
  \/ Clear
  \/ ClearButton
  \/ SelectItem
  \/ Submit
  \/ FetchCall
  \/ \E c \in 1..MaxCalls : FetchResolves(c)
  \/ \E c \in 1..MaxCalls : FetchRejects(c)
  \/ \E c \in 1..MaxCalls : BodyRead(c)

Spec == Init /\ [][Next]_vars

\* ================================================================= claims
Last(seq) == seq[Len(seq)]

Appends == {"load", "reload", "submit", "bodyRead"}

Clears == {"clear", "clearBtn"}

\* C1: after any clear operation (DevBox.clear() or the Clear Logs button) the
\* in-memory sequence is empty and the storage key is absent, so what is
\* persisted later holds only entries created after the clear, which are the
\* entries the list pane shows.
C1_ClearForgetsEntries ==
  /\ op \in Clears => logEntries = << >> /\ storage = NoItem
  /\ storage.kind = "json" => Len(storage.text) <= Len(sidebar)

\* C2: after a clear operation (DevBox.clear() or the Clear Logs button) the
\* storage key is absent (removed, not an empty array), the list pane has no
\* items and the detail pane is empty.
C2_ClearLeavesNothing ==
  op \in Clears => storage.kind = "absent" /\ sidebar = << >> /\ mainView = << >>

\* the Clear Logs button was used on a page that had logged an event
C2_Witness ==
  op = "clearBtn" /\ Len(logEntries) >= 4 /\ storage = NoItem /\ sidebar = << >>

\* C3: when loading produced the empty sequence, be it from an absent key or
\* from a malformed value, no error was raised and the initialization ran to
\* completion: interceptors, the three static entries, the control handle.
C3_MalformedLoadsAsEmpty ==
  (op \in {"load", "reload"} /\ restored = << >> /\ ~setItemThrows)
    => (threw = "none" /\ installed = AllInstalled /\ Len(logEntries) = 3)

\* what JSON keeps of a value: strings and plain objects
JSONRepresentable(v) == v[1] \in {"string", "object"}

\* the reload of a page whose last operation on the log was an append that
\* was persisted (no clear since)
C4_ReloadAfterAppends == Reload /\ op \in Appends /\ threw = "none"

C5_PersistedIsWholeLog ==
  (op \in Appends /\ threw = "none")
    => /\ storage = [kind |-> "json", text |-> StringifyEntries(logEntries)]
       /\ Item(Last(logEntries)) = sidebar[1]

\* an append after the Clear Logs button: the whole in-memory sequence is
\* persisted again
C5_Witness ==
  op = "submit" /\ threw = "none" /\ Len(logEntries) >= 4 /\ Len(sidebar) = 1

\* the value of the last field named k
LastValue(fields, k) ==
  fields[CHOOSE i \in 1..Len(fields) :
           fields[i][1] = k /\ \A j \in (i + 1)..Len(fields) : fields[j][1] # k][2]

\* the step added exactly the entry e
AddedOne(e) ==
  /\ Len(logEntries') = Len(logEntries) + 1
  /\ SubSeq(logEntries', 1, Len(logEntries)) = logEntries
  /\ Last(logEntries') = e

\* C6: a submit event has its default action prevented and adds exactly one
\* entry, titled "[FORM SUBMIT] <action or current path>" with the field
\* mapping (last duplicate key wins) as payload, if and only if
\* interceptSubmissions is true and the target is a form; otherwise no entry is
\* added and the default action is not prevented.
C6_SubmitInterception ==
  [][\A ev \in SubmitEvents : SubmitOf(ev) =>
       IF stopSubmit /\ ev.isForm
         THEN /\ defaultPrevented'
              /\ AddedOne([title |-> Label(now', "[FORM SUBMIT] " \o
                                       (IF ev.action = "" THEN Pathname ELSE ev.action)),
                           obj |-> [k \in {ev.fields[i][1] : i \in 1..Len(ev.fields)} |->
                                      LastValue(ev.fields, k)]])
         ELSE /\ ~defaultPrevented'
              /\ logEntries' = logEntries]_vars

\* the form with two fields of the same name was submitted
C6_Witness ==
  /\ op = "submit"
  /\ defaultPrevented
  /\ Last(logEntries).obj = [name |-> Str("b")]

\* the payload C7 describes for a call with arguments a whose body read gave
\* the text t ("" when the read failed)
C7_Payload(a, t, obj) ==
  /\ obj.method = (IF a.method = Undefined THEN Str("GET") ELSE a.method)
  /\ obj.url = Str(Url)
  /\ a.body = Undefined => DOMAIN obj = {"method", "url", "response"}
  /\ a.body # Undefined => DOMAIN obj = {"method", "url", "body", "response"}
  /\ a.body = Str("{\"q\":1}") => obj.body = Obj("{\"q\":1}")
  /\ a.body = Str("q=1") => obj.body = Str("q=1")
  /\ obj.response = (IF t = "{\"ok\":true}" THEN Obj(t) ELSE Str(t))

\* C7: a call of the wrapped fetch logs nothing until the read of the
\* duplicate's body settles, and then exactly one entry, titled
\* "[<METHOD>] <url>", with payload {method, url, body?, response}: method
\* "GET" when unspecified, body only when given (parsed, or raw when it is not
\* JSON), response parsed, or the raw text when it is not JSON, or "" when the
\* read failed.
C7_FetchLogsOneEntry ==
  [][/\ (FetchCall \/ \E c \in 1..MaxCalls : FetchResolves(c) \/ FetchRejects(c))
          => logEntries' = logEntries
     /\ \A c \in 1..MaxCalls : BodyRead(c) =>
          LET a == calls[c].args
              m == IF a.method = Undefined THEN "GET" ELSE a.method[2]
          IN  /\ Len(logEntries') = Len(logEntries) + 1
              /\ SubSeq(logEntries', 1, Len(logEntries)) = logEntries
              /\ Last(logEntries').title = Label(now, "[" \o m \o "] " \o Url)
              /\ C7_Payload(a, calls'[c].respText, Last(logEntries').obj)
              /\ calls'[c].logged = 1]_vars

\* a call with a body that is not JSON whose body read failed was logged
C7_Witness ==
  /\ op = "bodyRead"
  /\ \E c \in 1..MaxCalls :
       /\ calls[c].pc = "resolved"
       /\ calls[c].args.body = Str("q=1")
       /\ calls[c].respText = ""
       /\ Last(logEntries).obj = calls[c].entry
       /\ calls[c].entry.response = Str("")

\* C8: the wrapper resolves with the original response, never the duplicate,
\* and the logger reads only the duplicate: the original's body is unused.
C8_CallerGetsOriginal ==
  \A c \in 1..MaxCalls :
    /\ calls[c].pc = "resolved" => calls[c].returned = "resp"
    /\ ~calls[c].respBodyUsed
    /\ calls[c].pc \in {"awaitText", "resolved"} => calls[c].cloneBodyUsed

\* a call has resolved
C8_Witness ==
  \E c \in 1..MaxCalls :
    calls[c].pc = "resolved" /\ calls[c].cloneBodyUsed /\ ~calls[c].respBodyUsed

\* C9: the caller does not wait for the read of the duplicate's body: once
\* the real request has resolved and only that read is outstanding, the
\* wrapper's promise is resolved with the response.
C9_CallerNotBlockedByBodyRead ==
  \A c \in 1..MaxCalls : calls[c].pc = "awaitText" => calls[c].returned = "resp"

\* C10: a failing write to storage during an append never propagates: no
\* handler ends with the storage error, no call of the wrapped fetch rejects
\* with it, and the initialization installs the control handle.
C10_StorageFailureStaysLocal ==
  /\ threw # "storage"
  /\ \A c \in 1..MaxCalls : calls[c].err # "storage"
  /\ (op \in {"load", "reload"} /\ threw # "parse") => installed.handle
\* C11: the visibility flag and the panel's display state agree in every
\* reachable state (flag true exactly when the panel's display is "flex",
\* otherwise the display is "none"), isOpen() returns that flag, and before
\* any operation the flag is false and the panel hidden.
C11_FlagMatchesDisplay ==
  /\ visible <=> display = "flex"
  /\ ~visible <=> display = "none"
  /\ DevBox_isOpen(View) <=> display = "flex"
  /\ ~loaded => ~visible /\ display = "none"

\* the panel has been opened
C11_Witness ==
  installed.handle /\ visible /\ display = "flex" /\ DevBox_isOpen(View)

\* C12: at every call of toggle(), a second call right after would give back
\* the visibility flag the first call found, and the display state would
\* match the flag after it.
C12_ToggleTwice ==
  [][Toggle =>
       LET twice == DevBox_toggle(View')
       IN  /\ View' = DevBox_toggle(View)
           /\ twice.visible = visible
           /\ twice.display = display
           /\ twice.visible <=> twice.display = "flex"]_vars

\* toggle() was called on the hidden panel of a page with a logged event
C12_Witness ==
  installed.handle /\ visible /\ display = "flex" /\ Len(logEntries) >= 4
\* at a call of open, close, isOpen, clear or setBlockRedirects(val), a second
\* call right after would leave the state the first call left
C13_SecondCallChangesNothing ==
  /\ Open => View' = DevBox_open(View) /\ DevBox_open(View') = View'
  /\ Close => View' = DevBox_close(View) /\ DevBox_close(View') = View'
  /\ IsOpen => View' = View /\ DevBox_isOpen(View') = DevBox_isOpen(View)
  /\ Clear => View' = DevBox_clear(View) /\ DevBox_clear(View') = View'
  /\ \A val \in BOOLEAN :
       (SetBlockRedirects /\ blockRedirects' = val)
         => /\ View' = DevBox_setBlockRedirects(View, val)
            /\ DevBox_setBlockRedirects(View', val) = View'

\* C13 as stated: every operation of the control API, toggle included, is
\* idempotent in end state (visibility, display, in-memory sequence, storage,
\* panes): calling it twice in a row leaves the state one call leaves.
C13_EveryOperationIdempotent ==
  [][/\ C13_SecondCallChangesNothing
     /\ Toggle => View' = DevBox_toggle(View) /\ DevBox_toggle(View') = View']_vars

\* C13, amended: open, close, isOpen, clear and setBlockRedirects (called
\* again with the same value) are idempotent in end state; toggle is left out.
C13_IdempotentExceptToggle ==
  [][C13_SecondCallChangesNothing]_vars

\* clear() was called on a page whose panel is open and whose reserved flag
\* has been set
C13_Witness ==
  op = "clear" /\ visible /\ blockRedirects /\ logEntries = << >> /\ now >= 1
\* C14: however many times the module is loaded in a page, the initialization
\* runs once: a page that restored nothing holds at most the three static
\* entries plus one entry per submission or fetch call (in memory and in the
\* list pane), exactly the three static ones as long as no event was logged,
\* and no call of fetch is logged twice.
C14_InitializedOnce ==
  /\ restored = << >> => Len(logEntries) <= 3 + now /\ Len(sidebar) <= 3 + now
  /\ (op = "load" /\ threw = "none")
       => /\ Len(logEntries) = 3
          /\ Len(sidebar) = 3
          /\ storage = [kind |-> "json", text |-> StringifyEntries(logEntries)]
  /\ \A c \in 1..MaxCalls : calls[c].logged <= 1

\* a loaded page that has logged its three static entries and one fetch call
C14_Witness ==
  /\ loaded
  /\ restored = << >>
  /\ Len(logEntries) = 4
  /\ \E c \in 1..MaxCalls : calls[c].logged = 1
\* the entries the running initialization added
C15_Added == SubSeq(logEntries, Len(restored) + 1, Len(logEntries))

\* among the entries added by the initialization, one titled tag carries value
C15_Logged(tag, value) ==
  \E i \in 1..Len(C15_Added) :
    /\ \E t \in 0..MaxClock : C15_Added[i].title = Label(t, tag)
    /\ C15_Added[i].obj = value

\* C15: after an initialization on a page where __DEVBOX_SESSION,
\* __DEVBOX_GET, __DEVBOX_POST and __DEVBOX_FILE were injected, the log has an
\* entry for each, titled [SESSION], [GET], [POST] and [FILE], carrying the
\* injected value; with a global absent the initialization still completes,
\* the value defaulting to an empty object.
C15_InjectedGlobalsLogged ==
  (op \in {"load", "reload"} /\ threw = "none")
    => /\ installed = AllInstalled
       /\ C15_Logged("[SESSION]", IF env.session = << >> THEN Empty ELSE env.session[1])
       /\ env.get # << >> => C15_Logged("[GET]", env.get[1])
       /\ env.post # << >> => C15_Logged("[POST]", env.post[1])
       /\ env.file # << >> => C15_Logged("[FILE]", env.file[1])
IsPrefix(s, t) == Len(s) <= Len(t) /\ SubSeq(t, 1, Len(s)) = s

\* a clear operation: DevBox.clear() or the Clear Logs button
C17_ExplicitClear == Clear \/ ClearButton

C19_NothingCleared ==
  loaded /\ IsPrefix(restored, logEntries) /\ Len(sidebar) = Len(logEntries)

\* C19: after initialization and with no clear, the list pane read top to
\* bottom is the entries created during this page load, newest first, then
\* the entries restored from storage in their stored order; each item has its
\* entry's title as label and carries its entry's payload, and the detail
\* pane is empty or shows the payload of one of the entries.
C19_ListPaneOrder ==
  C19_NothingCleared =>
    LET n == Len(logEntries)
        r == Len(restored)
    IN  /\ \A i \in 1..(n - r) : sidebar[i] = Item(logEntries[n + 1 - i])
        /\ \A j \in 1..r : sidebar[n - r + j] = Item(restored[j])
        /\ \/ mainView = << >>
           \/ \E i \in 1..n : mainView = Detail(logEntries[i].obj)

\* a reloaded page that has logged an event, with an entry selected
C19_Witness ==
  /\ C19_NothingCleared
  /\ Len(restored) = 3
  /\ Len(sidebar) = 7
  /\ mainView # << >>
\* C20: setBlockRedirects(value) changes the blockRedirects flag and nothing
\* else (visibility, display state, in-memory sequence, persisted value, both
\* panes, interceptSubmissions), and the interceptors behave the same whatever
\* the flag's value: a submission of a form is prevented and logged, any other
\* is not, a call of fetch is passed on and logged once its body is read, and
\* none of them writes the flag.
C20_BlockRedirectsInert ==
  [][/\ SetBlockRedirects =>
          /\ blockRedirects' \in BOOLEAN
          /\ UNCHANGED <<visible, display, logEntries, storage, sidebar, mainView,
                         stopSubmit, installed, calls, defaultPrevented>>
     /\ \A ev \in SubmitEvents : SubmitOf(ev) =>
          /\ defaultPrevented' = ev.isForm
          /\ Len(logEntries') = Len(logEntries) + (IF ev.isForm THEN 1 ELSE 0)
          /\ blockRedirects' = blockRedirects
     /\ FetchCall =>
          /\ \E c \in 1..MaxCalls : calls[c].pc = "idle" /\ calls'[c].pc = "awaitFetch"
          /\ blockRedirects' = blockRedirects
     /\ \A c \in 1..MaxCalls : BodyRead(c) =>
          /\ Len(logEntries') = Len(logEntries) + 1
          /\ blockRedirects' = blockRedirects]_vars

\* a form was submitted on a page whose flag is set
C20_Witness ==
  blockRedirects /\ op = "submit" /\ defaultPrevented /\ Len(logEntries) >= 4
\* the call c is in flight: its request or its body read has not settled
C16_Pending(c) == calls[c].pc \in {"awaitFetch", "awaitText"}

\* the step appended one entry with payload obj to the in-memory sequence,
\* after the entries it held, and, when the write succeeded, the persisted
\* value is the whole sequence
C16_LoggedOnce(obj) ==
  /\ Len(logEntries') = Len(logEntries) + 1
  /\ SubSeq(logEntries', 1, Len(logEntries)) = logEntries
  /\ Last(logEntries').obj = obj
  /\ threw' = "none"
       => storage' = [kind |-> "json", text |-> StringifyEntries(logEntries')]

\* the steps of the interceptors and of the control API that log nothing
C16_OtherStep ==
  \/ FetchCall
  \/ \E c \in 1..MaxCalls : FetchResolves(c) \/ FetchRejects(c)
  \/ \E ev \in SubmitEvents : SubmitOf(ev) /\ ~Intercepts(ev)
  \/ TabClick \/ Open \/ Close \/ Toggle \/ IsOpen \/ Keydown
  \/ SetBlockRedirects \/ SelectItem \/ LoadAgain

\* while a call is in flight, the body read of any other call can settle and,
\* as long as the clock has not reached its bound, a submission can be handled
C16_NotBlocked ==
  \A c \in 1..MaxCalls : C16_Pending(c) =>
    /\ \A d \in 1..MaxCalls \ {c} : calls[d].pc = "awaitText" => ENABLED BodyRead(d)
    /\ (installed.submit /\ now < MaxClock) => ENABLED Submit

\* C16: under any interleaving of fetch calls in flight, submissions and
\* control operations other than clear, the settling of a call's body read
\* and an intercepted submission each append exactly one entry, at the end
\* of the in-memory sequence, and the persisted value is then that whole
\* sequence (when the write to storage succeeds); such a step leaves the
\* other calls as they are, no other step touches the two sequences, and
\* while a call is in flight the body read of any other call can settle and a
\* submission can be handled (looked at in the state before each click on the
\* tab, a step every state of a loaded page has).
C16_InterleavedLogging ==
  [][/\ \A c \in 1..MaxCalls : BodyRead(c) =>
          /\ C16_LoggedOnce(calls'[c].entry)
          /\ calls'[c].logged = 1
          /\ \A d \in 1..MaxCalls \ {c} : calls'[d] = calls[d]
     /\ \A ev \in SubmitEvents : (SubmitOf(ev) /\ Intercepts(ev)) =>
          /\ C16_LoggedOnce(FormData(ev.fields, Empty))
          /\ calls' = calls
     /\ C16_OtherStep => UNCHANGED <<logEntries, storage>>
     /\ TabClick => C16_NotBlocked]_vars

\* the second of two calls was logged while the first is still in flight
C16_Witness ==
  /\ calls[1].pc = "awaitText"
  /\ calls[2].pc = "resolved"
  /\ calls[2].logged = 1
  /\ Last(logEntries).obj = calls[2].entry
  /\ storage = [kind |-> "json", text |-> StringifyEntries(logEntries)]
====
